---- MODULE Spec2Model ----
(***************************************************************************)
(* integratecpp: the facade `integratecpp::integrator` over the QUADPACK   *)
(* routines Rdqags / Rdqagi (src/inst/include/integratecpp.h).             *)
(*                                                                         *)
(* The numerical kernel and the user function are external: the kernel is  *)
(* an environment that asks for batches of function values any number of   *)
(* times and finally returns arbitrary outputs and an arbitrary status     *)
(* code; the user function answers each point with a value or an           *)
(* exception.  The facade's own code (validation, dispatch, the callback   *)
(* with guarded_transform, throw_if_error) is translated statement by      *)
(* statement.                                                              *)
(*                                                                         *)
(* Doubles.  A double is a record [c, v]: c = "nan", c = "inf" with the    *)
(* sign in v, or c = "fin" with an integer v.  The facade only compares    *)
(* doubles (lines 702-705) and classifies them (isnan, isfinite); finite   *)
(* accuracies are written in units of machine epsilon, so that the         *)
(* threshold 50 * epsilon of line 704 is the integer 50.                   *)
(*                                                                         *)
(* Ints are 32 bits wide: the product 4 * max_subdivisions of lines 707,   *)
(* 908 and 914 is computed as the hardware computes it, and where it       *)
(* overflows (undefined behaviour) every outcome a build can produce is    *)
(* kept.                                                                   *)
(*                                                                         *)
(* Specifications.  Spec: one integrator, its setters and its operator().  *)
(* SpecIntegrate: the free function integrate.  SpecThreads: two threads   *)
(* in operator() of one integrator.  SpecExceptions: the catch_what        *)
(* functions of src/src/exceptions.cpp.  SpecSetters: a caller that sets   *)
(* the fields one by one between evaluations.  SpecBindings: the functions *)
(* exported to R by src/src/integrator.cpp and src/src/integrate.cpp.      *)
(***************************************************************************)
EXTENDS Integers, Sequences, FiniteSets, TLC

VARIABLES
  config_,   \* integrator::config_, the configuration the integrator owns
  call       \* per calling thread: its activation of integrator::operator()

vars == <<config_, call>>

----------------------------------------------------------------------------
(* Bounds of the model *)

\* largest number of points the kernel hands to the callback in one batch
MaxBatchLen == 2

\* the threads that call into the integrator
Callers == {1}

\* largest number of characters of an error message
MaxWhatLen == 3

----------------------------------------------------------------------------
(* double *)

Fin(n) == [c |-> "fin", v |-> n]
NaN == [c |-> "nan", v |-> 0]
PosInf == [c |-> "inf", v |-> 1]
NegInf == [c |-> "inf", v |-> -1]
\* the value of an argument slot the selected kernel entry does not have
NoArg == [c |-> "none", v |-> 0]

isnan(x) == x.c = "nan"
isfinite(x) == x.c = "fin"

\* x < y on doubles: false as soon as one side is NaN
dlt(x, y) ==
  /\ ~isnan(x)
  /\ ~isnan(y)
  /\ \/ x.c = "fin" /\ y.c = "fin" /\ x.v < y.v
     \/ x.c = "inf" /\ x.v < 0 /\ ~(y.c = "inf" /\ y.v < 0)
     \/ y.c = "inf" /\ y.v > 0 /\ ~(x.c = "inf" /\ x.v > 0)

\* x <= y on doubles
dle(x, y) == ~isnan(x) /\ ~isnan(y) /\ ~dlt(y, x)

\* std::numeric_limits<double>::epsilon(), the unit of the accuracy grid
epsilon == 1

\* std::max(50. * epsilon, 0.5e-28): 0.5e-28 is below epsilon = 2^-52
threshold == Fin(50 * epsilon)

\* std::pow(epsilon, 0.25) = 2^-13: a grid point above the threshold (the
\* code only compares it with 0 and with the threshold)
pow_epsilon_quarter == Fin(8192 * epsilon)

----------------------------------------------------------------------------
(* int *)

INT_MAX == (2^30 - 1) + 2^30
INT_MIN == (-INT_MAX) - 1

\* whether 4 * m leaves the range of int
Mul4Overflows(m) == m > INT_MAX \div 4 \/ m < -(2^29)

\* 4 * m modulo 2^32, read as a signed int
Wrap4(m) ==
  LET r == m % (2^30)
  IN IF r < 2^29 THEN 4 * r ELSE 4 * (r - 2^30)

\* the int stored for 4 * m: exact in range; on overflow the wrapped
\* product, which is what the multiplication instruction leaves
Mul4(m) == IF Mul4Overflows(m) THEN Wrap4(m) ELSE 4 * m

\* the outcomes of `w < 4 * m`: exact in range; on overflow the comparison
\* of the wrapped product, or the comparison a compiler derives from the
\* assumption that the product did not overflow
LtMul4(w, m) ==
  IF Mul4Overflows(m) THEN {w < Wrap4(m), m > 0} ELSE {w < 4 * m}

----------------------------------------------------------------------------
(* integrator::return_type *)

return_type(value, absolute_error, subdivisions, neval) ==
  [value |-> value, absolute_error |-> absolute_error,
   subdivisions |-> subdivisions, neval |-> neval]

\* return_type{}: value-initialised, every field zero
ZeroResult == return_type(Fin(0), Fin(0), 0, 0)

----------------------------------------------------------------------------
(* integrator::config_type *)

config_type(max_subdivisions, relative_accuracy, absolute_accuracy, work_size) ==
  [max_subdivisions |-> max_subdivisions,
   relative_accuracy |-> relative_accuracy,
   absolute_accuracy |-> absolute_accuracy,
   work_size |-> work_size]

\* config_type(): the default member initialisers
config_type0 ==
  config_type(100, pow_epsilon_quarter, pow_epsilon_quarter, 400)

\* config_type(max_subdivisions, relative_accuracy)
config_type2(max_subdivisions, relative_accuracy) ==
  config_type(max_subdivisions, relative_accuracy, relative_accuracy,
              Mul4(max_subdivisions))

\* config_type(max_subdivisions, relative_accuracy, absolute_accuracy)
config_type3(max_subdivisions, relative_accuracy, absolute_accuracy) ==
  config_type(max_subdivisions, relative_accuracy, absolute_accuracy,
              Mul4(max_subdivisions))

----------------------------------------------------------------------------
(* integrator::integrator *)

\* an integrator constructed without regard to the configuration given
integrator_default(config) == config_type0

\* integrator(const config_type &config): the config_ of the integrator
\* constructed
integrator(config) == config

----------------------------------------------------------------------------
(* The exception classes.  An exception object is its dynamic class, its   *)
(* what() and, for the two integration superclasses, its result_.          *)

\* the hierarchy with invalid_input_error derived from
\* integration_runtime_error
BaseClass_all_runtime ==
  [k \in {"max_subdivision_error", "roundoff_error", "bad_integrand_error",
          "extrapolation_roundoff_error", "divergence_error",
          "invalid_input_error", "integration_runtime_error",
          "integration_logic_error", "std::runtime_error",
          "std::logic_error", "std::bad_alloc", "Rcpp::exception"} |->
     CASE k = "integration_runtime_error" -> "std::runtime_error"
       [] k = "integration_logic_error" -> "std::logic_error"
       [] k \in {"std::runtime_error", "std::logic_error", "std::bad_alloc",
                 "Rcpp::exception"}
            -> "std::exception"
       [] OTHER -> "integration_runtime_error"]

\* the base class each class derives from
BaseClass ==
  [k \in {"max_subdivision_error", "roundoff_error", "bad_integrand_error",
          "extrapolation_roundoff_error", "divergence_error",
          "invalid_input_error", "integration_runtime_error",
          "integration_logic_error", "std::runtime_error",
          "std::logic_error", "std::bad_alloc", "Rcpp::exception"} |->
     CASE k = "invalid_input_error" -> "integration_logic_error"
       [] k = "integration_runtime_error" -> "std::runtime_error"
       [] k = "integration_logic_error" -> "std::logic_error"
       [] k \in {"std::runtime_error", "std::logic_error", "std::bad_alloc",
                 "Rcpp::exception"}
            -> "std::exception"
       [] OTHER -> "integration_runtime_error"]

\* whether a handler `catch (const base &)` catches an object of class k
RECURSIVE IsA(_, _)
IsA(k, base) ==
  \/ k = base
  \/ /\ k \in DOMAIN BaseClass
     /\ IsA(BaseClass[k], base)

\* whether class k has the accessor result()
HasResult(k) ==
  IsA(k, "integration_runtime_error") \/ IsA(k, "integration_logic_error")

\* an exception of class k built from a message alone (the inherited
\* constructors): result_{} stays value-initialised
Exception(k, what) == [kind |-> k, what |-> what, result |-> ZeroResult]

\* an integration error built from a message and a result
IntegrationError(k, what, result) ==
  [kind |-> k, what |-> what, result |-> result]

\* integration_runtime_error::result() and integration_logic_error::result()
Result(e) == e.result

\* the five kinds of the kernel's status codes 1..5
StatusKinds ==
  <<"max_subdivision_error", "roundoff_error", "bad_integrand_error",
    "extrapolation_roundoff_error", "divergence_error">>

\* the kinds of the error taxonomy
TaxonomyKinds ==
  {StatusKinds[i] : i \in 1..5}
  \cup {"invalid_input_error", "integration_runtime_error",
        "integration_logic_error"}

\* the terminating character of a C string
NUL == "NUL"

\* the characters of a message given as a std::string
Chars == {NUL, "a", "b"}

\* the messages given as a std::string: a std::string may hold NUL
Messages == UNION {[1..n -> Chars] : n \in 0..MaxWhatLen}

\* the C string that ends after its first character
c_str_one_char(s) == IF s = <<>> \/ s[1] = NUL THEN <<>> ELSE <<s[1]>>

\* std::string::c_str() read as a C string: the characters before the
\* first NUL
c_str(s) ==
  LET Z == {i \in 1..Len(s) : s[i] = NUL}
  IN IF Z = {} THEN s
     ELSE SubSeq(s, 1, (CHOOSE i \in Z : \A j \in Z : i <= j) - 1)

\* std::runtime_error::what() and std::logic_error::what(): the stored
\* message as a const char *
What(e) == c_str(e.what)

\* std::exception_ptr(): the null pointer
NullPtr == [kind |-> "null", what |-> "", result |-> ZeroResult]

----------------------------------------------------------------------------
(* integrator::operator(): validation *)

\* throw_if_invalid_config: the outcomes of the three tests, TRUE when
\* invalid_input_error("the input is invalid") is thrown
throw_if_invalid_config(config) ==
  IF config.max_subdivisions <= 0 THEN {TRUE}
  ELSE IF /\ dle(config.absolute_accuracy, Fin(0))
          /\ dlt(config.relative_accuracy, threshold) THEN {TRUE}
  ELSE LtMul4(config.work_size, config.max_subdivisions)

\* throw_if_invalid_bounds with `&&` written for `||`
throw_if_invalid_bounds_and(lower, upper) == isnan(lower) /\ isnan(upper)

\* throw_if_invalid_bounds: TRUE when invalid_input_error is thrown
throw_if_invalid_bounds(lower, upper) == isnan(lower) \/ isnan(upper)

----------------------------------------------------------------------------
(* integrator::operator(): dispatch *)

\* translate_bounds with the codes of the two half-lines exchanged
translate_bounds_swapped(lower, upper) ==
  IF isfinite(lower) THEN [bound |-> lower, inf |-> -1]
  ELSE IF isfinite(upper) THEN [bound |-> upper, inf |-> 1]
  ELSE [bound |-> Fin(0), inf |-> 2]

\* translate_bounds: the pair (bound, inf) handed to Rdqagi
\* translate_bounds looking at the sign of an infinite upper bound
translate_bounds_signed(lower, upper) ==
  IF isfinite(lower)
  THEN [bound |-> lower, inf |-> IF upper = NegInf THEN -1 ELSE 1]
  ELSE IF isfinite(upper) THEN [bound |-> upper, inf |-> -1]
  ELSE [bound |-> Fin(0), inf |-> 2]

translate_bounds(lower, upper) ==
  IF isfinite(lower) THEN [bound |-> lower, inf |-> 1]
  ELSE IF isfinite(upper) THEN [bound |-> upper, inf |-> -1]
  ELSE [bound |-> Fin(0), inf |-> 2]

\* the kernel entry invoked and the bounds arguments it receives
Dispatch(lower, upper) ==
  IF isfinite(lower) /\ isfinite(upper)
  THEN [entry |-> "Rdqags", a |-> lower, b |-> upper,
        bound |-> NoArg, inf |-> 0]
  ELSE LET bounds_info == translate_bounds(lower, upper)
       IN [entry |-> "Rdqagi", a |-> NoArg, b |-> NoArg,
           bound |-> bounds_info.bound, inf |-> bounds_info.inf]

\* no kernel entry invoked
NoKernel ==
  [entry |-> "none", a |-> NoArg, b |-> NoArg, bound |-> NoArg, inf |-> 0]

\* the index array with one element more than limit
iwork_size_plus_one(limit, lenw) == limit + 1

\* the index array sized by lenw instead of limit
iwork_size_lenw(limit, lenw) == lenw

\* std::vector<int>(limit): the length of the index array
iwork_size(limit, lenw) == limit

\* std::vector<double>(lenw): the length of the working array
work_size(limit, lenw) == lenw

----------------------------------------------------------------------------
(* integrator::operator(): the locals the kernel holds pointers to *)

\* the four locals declared as references to the members of config_
\* (auto &limit = config_.max_subdivisions; ...): what the kernel stores
\* through its pointers lands in config_
store_through_references(config, limit, epsrel, epsabs, lenw) ==
  config_type(limit, epsrel, epsabs, lenw)

\* config_ once the kernel has stored limit, epsrel, epsabs and lenw through
\* &limit, &epsrel, &epsabs and &lenw: the four locals of lines 728-731 are
\* copies (auto, not auto &), so the stores stay in the activation
store_through_pointers(config, limit, epsrel, epsabs, lenw) == config

\* the context pointer every activation hands to the kernel designating the
\* pair of one activation (a `static` ex)
context_static(t) == 1

\* &ex of lines 814 and 838: the context pointer activation t hands to the
\* kernel designates the pair `ex` local to activation t (lines 809-811)
context(t) == t

----------------------------------------------------------------------------
(* The user function.  At one point it returns a double or throws.         *)

Ret(v) == [t |-> "ret", v |-> v, e |-> NullPtr]
Throw(e) == [t |-> "throw", v |-> NaN, e |-> e]

\* what the user function may do at a point
FnOutcomes ==
  {Ret(Fin(3)), Ret(PosInf),
   Throw(Exception("std::runtime_error", "boom")),
   Throw(Exception("int", "")),
   Throw(Exception("std::bad_alloc", "std::bad_alloc"))}

\* what the user function may do on its successive invocations in a batch
\* of n points: std::transform stops at the first invocation that throws
FnRuns(n) ==
  {fs \in UNION {[1..m -> FnOutcomes] : m \in 1..n} :
     /\ \A i \in 1..(Len(fs) - 1) : fs[i].t = "ret"
     /\ Len(fs) < n => fs[Len(fs)].t = "throw"}

\* the abscissae of a batch of n points
Points(n) == [i \in 1..n |-> Fin(i)]

----------------------------------------------------------------------------
(* integrand_callback / guarded_transform *)

\* index of the invocation at which the user function throws, one past the
\* last invocation if none does
FirstThrow(fs) ==
  LET T == {i \in 1..Len(fs) : fs[i].t = "throw"}
  IN IF T = {} THEN Len(fs) + 1 ELSE CHOOSE i \in T : \A j \in T : i <= j

\* std::transform(first, last, d_first, fn) in place: the array when the
\* call returns or is left by the exception of point k
transform(x, fs) ==
  LET k == FirstThrow(fs)
  IN [i \in 1..Len(x) |-> IF i < k THEN fs[i].v ELSE x[i]]

\* a cleanup that leaves the array as it is
cleanup_nothing(x) == x

\* cleanup: std::fill_n(first, size, 0.)
cleanup(x) == [i \in 1..Len(x) |-> Fin(0)]

\* the check of the function values with !isnan written for isfinite
all_finite_notnan(x) == \A i \in 1..Len(x) : ~isnan(x[i])

\* std::all_of(d_first, d_first + n, isfinite)
all_finite(x) == \A i \in 1..Len(x) : isfinite(x[i])

\* guarded_transform whose handler for std::exception cleans up but does
\* not store the exception
guarded_transform_forgets(x, fs, e_ptr) ==
  LET n == Len(x)
      k == FirstThrow(fs)
      calls == IF k <= n THEN k ELSE n
      x1 == transform(x, fs)
      thrown == IF k <= n THEN fs[k].e ELSE NullPtr
      caught == k <= n /\ thrown.kind # "std::bad_alloc"
      x2 == IF caught THEN cleanup(x1) ELSE x1
      e2 == IF ~caught THEN e_ptr
            ELSE IF IsA(thrown.kind, "std::exception") THEN e_ptr
            ELSE Exception("integration_runtime_error", "Unknown error")
      nonfinite == e2 = NullPtr /\ ~all_finite(x2)
  IN IF k <= n /\ thrown.kind = "std::bad_alloc"
     THEN [x |-> x1, e_ptr |-> e_ptr, calls |-> calls, rethrown |-> thrown]
     ELSE [x |-> IF nonfinite THEN cleanup(x2) ELSE x2,
           e_ptr |-> IF nonfinite
                     THEN Exception("integration_runtime_error",
                                    "non-finite function value")
                     ELSE e2,
           calls |-> calls,
           rethrown |-> NullPtr]

\* guarded_transform treating std::bad_alloc like any other std::exception
guarded_transform_defers_bad_alloc(x, fs, e_ptr) ==
  LET n == Len(x)
      k == FirstThrow(fs)
      calls == IF k <= n THEN k ELSE n
      x1 == transform(x, fs)
      thrown == IF k <= n THEN fs[k].e ELSE NullPtr
      caught == k <= n
      x2 == IF caught THEN cleanup(x1) ELSE x1
      e2 == IF ~caught THEN e_ptr
            ELSE IF IsA(thrown.kind, "std::exception") THEN thrown
            ELSE Exception("integration_runtime_error", "Unknown error")
      nonfinite == e2 = NullPtr /\ ~all_finite(x2)
  IN [x |-> IF nonfinite THEN cleanup(x2) ELSE x2,
      e_ptr |-> IF nonfinite
                THEN Exception("integration_runtime_error",
                               "non-finite function value")
                ELSE e2,
      calls |-> calls,
      rethrown |-> NullPtr]

\* guarded_transform storing the "Unknown error" for whatever was caught
guarded_transform_wraps(x, fs, e_ptr) ==
  LET n == Len(x)
      k == FirstThrow(fs)
      calls == IF k <= n THEN k ELSE n
      x1 == transform(x, fs)
      thrown == IF k <= n THEN fs[k].e ELSE NullPtr
      caught == k <= n /\ thrown.kind # "std::bad_alloc"
      x2 == IF caught THEN cleanup(x1) ELSE x1
      e2 == IF ~caught THEN e_ptr
            ELSE Exception("integration_runtime_error", "Unknown error")
      nonfinite == e2 = NullPtr /\ ~all_finite(x2)
  IN IF k <= n /\ thrown.kind = "std::bad_alloc"
     THEN [x |-> x1, e_ptr |-> e_ptr, calls |-> calls, rethrown |-> thrown]
     ELSE [x |-> IF nonfinite THEN cleanup(x2) ELSE x2,
           e_ptr |-> IF nonfinite
                     THEN Exception("integration_runtime_error",
                                    "non-finite function value")
                     ELSE e2,
           calls |-> calls,
           rethrown |-> NullPtr]

\* guarded_transform returning at once when the slot already holds a failure
guarded_transform_skips(x, fs, e_ptr) ==
  LET n == Len(x)
      k == FirstThrow(fs)
      calls == IF k <= n THEN k ELSE n
      x1 == transform(x, fs)
      thrown == IF k <= n THEN fs[k].e ELSE NullPtr
      caught == k <= n /\ thrown.kind # "std::bad_alloc"
      x2 == IF caught THEN cleanup(x1) ELSE x1
      e2 == IF ~caught THEN e_ptr
            ELSE IF IsA(thrown.kind, "std::exception") THEN thrown
            ELSE Exception("integration_runtime_error", "Unknown error")
      nonfinite == e2 = NullPtr /\ ~all_finite(x2)
  IN IF e_ptr # NullPtr
     THEN [x |-> x, e_ptr |-> e_ptr, calls |-> 0, rethrown |-> NullPtr]
     ELSE IF k <= n /\ thrown.kind = "std::bad_alloc"
     THEN [x |-> x1, e_ptr |-> e_ptr, calls |-> calls, rethrown |-> thrown]
     ELSE [x |-> IF nonfinite THEN cleanup(x2) ELSE x2,
           e_ptr |-> IF nonfinite
                     THEN Exception("integration_runtime_error",
                                    "non-finite function value")
                     ELSE e2,
           calls |-> calls,
           rethrown |-> NullPtr]

\* guarded_transform storing a caught exception only in an empty slot
guarded_transform_keeps_first(x, fs, e_ptr) ==
  LET n == Len(x)
      k == FirstThrow(fs)
      calls == IF k <= n THEN k ELSE n
      x1 == transform(x, fs)
      thrown == IF k <= n THEN fs[k].e ELSE NullPtr
      caught == k <= n /\ thrown.kind # "std::bad_alloc"
      x2 == IF caught THEN cleanup(x1) ELSE x1
      e2 == IF ~caught \/ e_ptr # NullPtr THEN e_ptr
            ELSE IF IsA(thrown.kind, "std::exception") THEN thrown
            ELSE Exception("integration_runtime_error", "Unknown error")
      nonfinite == e2 = NullPtr /\ ~all_finite(x2)
  IN IF k <= n /\ thrown.kind = "std::bad_alloc"
     THEN [x |-> x1, e_ptr |-> e_ptr, calls |-> calls, rethrown |-> thrown]
     ELSE [x |-> IF nonfinite THEN cleanup(x2) ELSE x2,
           e_ptr |-> IF nonfinite
                     THEN Exception("integration_runtime_error",
                                    "non-finite function value")
                     ELSE e2,
           calls |-> calls,
           rethrown |-> NullPtr]

\* guarded_transform on the batch x with the user function behaving as fs
\* and the exception slot holding e_ptr: the array and the slot afterwards,
\* the number of invocations of the user function, and the exception that
\* leaves the callback (NullPtr when it returns normally)
guarded_transform(x, fs, e_ptr) ==
  LET n == Len(x)
      k == FirstThrow(fs)
      calls == IF k <= n THEN k ELSE n
      x1 == transform(x, fs)
      thrown == IF k <= n THEN fs[k].e ELSE NullPtr
      caught == k <= n /\ thrown.kind # "std::bad_alloc"
      x2 == IF caught THEN cleanup(x1) ELSE x1
      e2 == IF ~caught THEN e_ptr
            ELSE IF IsA(thrown.kind, "std::exception") THEN thrown
            ELSE Exception("integration_runtime_error", "Unknown error")
      nonfinite == e2 = NullPtr /\ ~all_finite(x2)
  IN IF k <= n /\ thrown.kind = "std::bad_alloc"
     THEN [x |-> x1, e_ptr |-> e_ptr, calls |-> calls, rethrown |-> thrown]
     ELSE [x |-> IF nonfinite THEN cleanup(x2) ELSE x2,
           e_ptr |-> IF nonfinite
                     THEN Exception("integration_runtime_error",
                                    "non-finite function value")
                     ELSE e2,
           calls |-> calls,
           rethrown |-> NullPtr]

----------------------------------------------------------------------------
(* integrator::operator(): throw_if_error *)

\* how an activation of operator() ends
Returned(out) == [status |-> "returned", exc |-> NullPtr, out |-> out]
Raised(e) == [status |-> "raised", exc |-> e, out |-> ZeroResult]
\* a failed assert: the process is aborted
Aborted == [status |-> "aborted", exc |-> NullPtr, out |-> ZeroResult]
NotEnded == [status |-> "none", exc |-> NullPtr, out |-> ZeroResult]

\* the if-chain with the kinds of codes 2 and 4 exchanged
status_error_swapped(error_code, result) ==
  IF error_code = 1
  THEN IntegrationError("max_subdivision_error",
                        "maximum number of subdivisions reached", result)
  ELSE IF error_code = 2
  THEN IntegrationError("extrapolation_roundoff_error",
                        "roundoff error is detected in the extrapolation table",
                        result)
  ELSE IF error_code = 3
  THEN IntegrationError("bad_integrand_error",
                        "extremely bad integrand behaviour", result)
  ELSE IF error_code = 4
  THEN IntegrationError("roundoff_error", "roundoff error was detected",
                        result)
  ELSE IF error_code = 5
  THEN IntegrationError("divergence_error",
                        "the integral is probably divergent", result)
  ELSE Exception("std::logic_error",
         "invalid argument errors should be caught during initialization")

\* the if-chain whose last branch throws invalid_input_error
status_error_invalid_input(error_code, result) ==
  IF error_code = 1
  THEN IntegrationError("max_subdivision_error",
                        "maximum number of subdivisions reached", result)
  ELSE IF error_code = 2
  THEN IntegrationError("roundoff_error", "roundoff error was detected",
                        result)
  ELSE IF error_code = 3
  THEN IntegrationError("bad_integrand_error",
                        "extremely bad integrand behaviour", result)
  ELSE IF error_code = 4
  THEN IntegrationError("extrapolation_roundoff_error",
                        "roundoff error is detected in the extrapolation table",
                        result)
  ELSE IF error_code = 5
  THEN IntegrationError("divergence_error",
                        "the integral is probably divergent", result)
  ELSE Exception("invalid_input_error", "the input is invalid")

\* the if-chain of lines 854-871: the exception thrown for a status code > 0
status_error(error_code, result) ==
  IF error_code = 1
  THEN IntegrationError("max_subdivision_error",
                        "maximum number of subdivisions reached", result)
  ELSE IF error_code = 2
  THEN IntegrationError("roundoff_error", "roundoff error was detected",
                        result)
  ELSE IF error_code = 3
  THEN IntegrationError("bad_integrand_error",
                        "extremely bad integrand behaviour", result)
  ELSE IF error_code = 4
  THEN IntegrationError("extrapolation_roundoff_error",
                        "roundoff error is detected in the extrapolation table",
                        result)
  ELSE IF error_code = 5
  THEN IntegrationError("divergence_error",
                        "the integral is probably divergent", result)
  ELSE Exception("std::logic_error",
         "invalid argument errors should be caught during initialization")

\* throw_if_error that maps the status code before it looks at e_ptr
throw_if_error_code_first(error_code, e_ptr, result, ndebug) ==
  IF error_code > 0
  THEN IF ~ndebug /\ ~(error_code < 6) THEN Aborted
       ELSE Raised(status_error(error_code, result))
  ELSE IF e_ptr # NullPtr THEN Raised(e_ptr)
  ELSE Returned(result)

\* throw_if_error followed by `return return_type{}`
throw_if_error_return_zero(error_code, e_ptr, result, ndebug) ==
  IF e_ptr # NullPtr THEN Raised(e_ptr)
  ELSE IF error_code > 0
  THEN IF ~ndebug /\ ~(error_code < 6) THEN Aborted
       ELSE Raised(status_error(error_code, result))
  ELSE Returned(ZeroResult)

\* throw_if_error(ier, e_ptr, out) followed by `return out`, in a build
\* with NDEBUG defined (ndebug) or not: assert(error_code < 6) aborts
\* unless NDEBUG is defined
throw_if_error(error_code, e_ptr, result, ndebug) ==
  IF e_ptr # NullPtr THEN Raised(e_ptr)
  ELSE IF error_code > 0
  THEN IF ~ndebug /\ ~(error_code < 6) THEN Aborted
       ELSE Raised(status_error(error_code, result))
  ELSE Returned(result)

----------------------------------------------------------------------------
(* The inputs *)

\* arguments of the constructors and setters
MaxSubdivisionsArgs == {0, 100, 2^30}
WorkSizeArgs == {4, 400}
RelativeAccuracyArgs == {Fin(49), Fin(50), pow_epsilon_quarter}
AbsoluteAccuracyArgs == {Fin(0), pow_epsilon_quarter}

\* the configurations a caller builds with the four constructors
ConfigArgs ==
  {config_type0}
  \cup {config_type2(m, r) :
          m \in MaxSubdivisionsArgs,
          r \in RelativeAccuracyArgs \cap AbsoluteAccuracyArgs}
  \cup {config_type3(m, r, a) :
          m \in MaxSubdivisionsArgs, r \in RelativeAccuracyArgs,
          a \in AbsoluteAccuracyArgs}
  \cup {config_type(m, r, a, w) :
          m \in MaxSubdivisionsArgs, r \in RelativeAccuracyArgs,
          a \in AbsoluteAccuracyArgs, w \in WorkSizeArgs}

\* the bounds of integration a caller passes
LowerArgs == {NaN, NegInf, PosInf, Fin(0)}
UpperArgs == {NaN, NegInf, PosInf, Fin(1)}

\* what the kernel may write to result, abserr, last and neval
KernelResults ==
  {ZeroResult, return_type(Fin(3), Fin(1), 2, 42),
   return_type(Fin(3), Fin(1), 101, 42)}

\* what the kernel may write to ier
StatusCodes == (-1)..7

\* whether the kernel stores through &limit, &lenw, &epsrel, &epsabs and
\* &bound before it returns
KernelStores == BOOLEAN

\* the activation after the kernel has stored through these pointers
Stored(c) ==
  [c EXCEPT !.limit = 1, !.lenw = 1, !.epsrel = Fin(0), !.epsabs = Fin(0),
            !.bound = IF c.kernel.entry = "Rdqagi" THEN Fin(7) ELSE @]

----------------------------------------------------------------------------
(* The state *)

\* what a binding function gives back to R: nothing yet, a normal return
\* without a value, the list, or the R error raised by Rcpp::stop
NoHost ==
  [t |-> "none", value |-> Fin(0), abs_error |-> Fin(0), subdivisions |-> 0,
   message |-> ""]
HostVoid == [NoHost EXCEPT !.t = "void"]
HostList(value, abs_error, subdivisions, message) ==
  [t |-> "list", value |-> value, abs_error |-> abs_error,
   subdivisions |-> subdivisions, message |-> message]
HostStop(message) == [NoHost EXCEPT !.t = "stop", !.message = message]

\* an activation of operator() that has not started (thrown is what the
\* user function raised last in this activation, NullPtr if nothing;
\* binding and host are the binding function that made the call, if one
\* did, and what it gave back to R)
IdleCall ==
  [pc |-> "idle",
   arg |-> config_type0,
   config |-> config_type0,
   lower |-> Fin(0), upper |-> Fin(0),
   limit |-> 0, epsrel |-> Fin(0), epsabs |-> Fin(0), lenw |-> 0,
   bound |-> NoArg,
   iwork |-> 0, work |-> 0,
   kernel |-> NoKernel, kcalls |-> 0, kreturned |-> FALSE,
   e_ptr |-> NullPtr,
   x |-> <<>>, xcalls |-> 0, xthrow |-> 0,
   invoked |-> FALSE, threw |-> FALSE, nonfinite |-> FALSE,
   thrown |-> NullPtr,
   binding |-> "", host |-> NoHost,
   out |-> ZeroResult, ier |-> 0,
   res |-> NotEnded]

Init ==
  /\ config_ \in ConfigArgs
  /\ call = [t \in Callers |-> IdleCall]

\* operator() up to the kernel call: validation fails (bad) or the locals
\* are set up and the kernel entry is invoked
Enter(config, lower, upper, bad) ==
  IF bad \/ throw_if_invalid_bounds(lower, upper)
  THEN [IdleCall EXCEPT
          !.pc = "done", !.config = config,
          !.lower = lower, !.upper = upper,
          !.res = Raised(Exception("invalid_input_error",
                                   "the input is invalid"))]
  ELSE [IdleCall EXCEPT
          !.pc = "kernel", !.config = config,
          !.lower = lower, !.upper = upper,
          !.limit = config.max_subdivisions,
          !.epsrel = config.relative_accuracy,
          !.epsabs = config.absolute_accuracy,
          !.lenw = config.work_size,
          !.bound = Dispatch(lower, upper).bound,
          !.iwork = iwork_size(config.max_subdivisions, config.work_size),
          !.work = work_size(config.max_subdivisions, config.work_size),
          !.kernel = Dispatch(lower, upper),
          !.kcalls = 1]

\* thread t calls operator()(fn, lower, upper)
Call(t) ==
  /\ call[t].pc = "idle"
  /\ \E lower \in LowerArgs, upper \in UpperArgs :
       \E bad \in throw_if_invalid_config(config_) :
         call' = [call EXCEPT ![t] = Enter(config_, lower, upper, bad)]
  /\ UNCHANGED config_

\* the kernel calls integrand_callback with a batch of n points and the
\* context pointer it was given
integrand_callback(t, n, fs) ==
  LET c == call[t]
      ex == context(t)
      g == guarded_transform(Points(n), fs, call[ex].e_ptr)
      k == FirstThrow(fs)
      batch == [c EXCEPT
                  !.x = g.x, !.xcalls = g.calls,
                  !.xthrow = IF k <= n THEN k ELSE 0,
                  !.invoked = TRUE,
                  !.threw = c.threw \/ k <= n,
                  !.thrown = IF k <= n THEN fs[k].e ELSE c.thrown,
                  !.nonfinite = c.nonfinite \/
                     \E i \in 1..n :
                       i < k /\ fs[i].t = "ret" /\ ~isfinite(fs[i].v)]
      left == IF g.rethrown # NullPtr
              THEN [batch EXCEPT !.pc = "done", !.res = Raised(g.rethrown)]
              ELSE batch
  IN call' = [[call EXCEPT ![t] = left] EXCEPT ![ex].e_ptr = g.e_ptr]

\* a batch of the call of thread t, the user function being any
Callback(t) ==
  /\ call[t].pc = "kernel"
  /\ \E n \in 1..MaxBatchLen :
       \E fs \in FnRuns(n) : integrand_callback(t, n, fs)
  /\ UNCHANGED config_

\* the kernel entry returns, having written its outputs and possibly
\* stored through the other pointers; throw_if_error; return out
KernelReturn(t) ==
  /\ call[t].pc = "kernel"
  /\ \E o \in KernelResults, code \in StatusCodes, ndebug \in BOOLEAN,
        stores \in KernelStores :
       LET c == IF stores THEN Stored(call[t]) ELSE call[t]
       IN /\ call' = [call EXCEPT ![t] =
                        [c EXCEPT !.pc = "done", !.kreturned = TRUE,
                                  !.out = o, !.ier = code,
                                  !.x = <<>>, !.xcalls = 0, !.xthrow = 0,
                                  !.res = throw_if_error(code, c.e_ptr, o,
                                                         ndebug)]]
          /\ config_' = IF stores
                        THEN store_through_pointers(config_, c.limit,
                                                    c.epsrel, c.epsabs, c.lenw)
                        ELSE config_

\* the caller has taken the result or handled the exception
Finish(t) ==
  /\ call[t].pc = "done"
  /\ call[t].res.status # "aborted"
  /\ call' = [call EXCEPT ![t] = IdleCall]
  /\ UNCHANGED config_

\* the accessors of integrator: what each getter returns from config_ and
\* what each setter leaves in config_
get_config(config) == config
get_max_subdivisions(config) == config.max_subdivisions
get_relative_accuracy(config) == config.relative_accuracy
get_absolute_accuracy(config) == config.absolute_accuracy
get_work_size(config) == config.work_size

set_config(config, c) == c

\* a setter that keeps the working buffer four times the limit
set_max_subdivisions_resizing(config, m) ==
  [config EXCEPT !.max_subdivisions = m, !.work_size = Mul4(m)]

set_max_subdivisions(config, m) == [config EXCEPT !.max_subdivisions = m]
set_relative_accuracy(config, r) == [config EXCEPT !.relative_accuracy = r]
set_absolute_accuracy(config, a) == [config EXCEPT !.absolute_accuracy = a]
set_work_size(config, w) == [config EXCEPT !.work_size = w]

\* no activation of operator() is running
Quiet == \A t \in Callers : call[t].pc = "idle"

\* integrator::config(const config_type &)
SetConfig ==
  /\ Quiet
  /\ \E c \in ConfigArgs : config_' = set_config(config_, c)
  /\ UNCHANGED call

\* integrator::max_subdivisions(int)
SetMaxSubdivisions ==
  /\ Quiet
  /\ \E m \in MaxSubdivisionsArgs :
       config_' = set_max_subdivisions(config_, m)
  /\ UNCHANGED call

\* integrator::relative_accuracy(double)
SetRelativeAccuracy ==
  /\ Quiet
  /\ \E r \in RelativeAccuracyArgs :
       config_' = set_relative_accuracy(config_, r)
  /\ UNCHANGED call

\* integrator::absolute_accuracy(double)
SetAbsoluteAccuracy ==
  /\ Quiet
  /\ \E a \in AbsoluteAccuracyArgs :
       config_' = set_absolute_accuracy(config_, a)
  /\ UNCHANGED call

\* integrator::work_size(int)
SetWorkSize ==
  /\ Quiet
  /\ \E w \in WorkSizeArgs :
       config_' = set_work_size(config_, w)
  /\ UNCHANGED call

Next ==
  \/ \E t \in Callers : Call(t)
  \/ \E t \in Callers : Callback(t)
  \/ \E t \in Callers : KernelReturn(t)
  \/ \E t \in Callers : Finish(t)
  \/ SetConfig
  \/ SetMaxSubdivisions
  \/ SetRelativeAccuracy
  \/ SetAbsoluteAccuracy
  \/ SetWorkSize

Spec == Init /\ [][Next]_vars

----------------------------------------------------------------------------
(* The free function integrate(fn, lower, upper, config): config_ is the   *)
(* configuration of the temporary integrator{config} it constructs and     *)
(* calls; an omitted config is config_type{}, an element of ConfigArgs.    *)

InitIntegrate ==
  /\ config_ = config_type0
  /\ call = [t \in Callers |-> IdleCall]

\* thread t calls integrate(fn, lower, upper, config): the temporary is
\* constructed and its operator() runs up to the kernel call
Integrate(t) ==
  /\ call[t].pc = "idle"
  /\ \E config \in ConfigArgs, lower \in LowerArgs, upper \in UpperArgs :
       /\ config_' = integrator(config)
       /\ \E bad \in throw_if_invalid_config(config_') :
            call' = [call EXCEPT ![t] =
                       [Enter(config_', lower, upper, bad)
                          EXCEPT !.arg = config]]

\* the kernel calls integrand_callback with one point
IntegrateCallback(t) ==
  /\ Callback(t)
  /\ Len(call'[t].x) = 1

NextIntegrate ==
  \/ \E t \in Callers : Integrate(t)
  \/ \E t \in Callers : IntegrateCallback(t)
  \/ \E t \in Callers : KernelReturn(t)
  \/ \E t \in Callers : Finish(t)

SpecIntegrate == InitIntegrate /\ [][NextIntegrate]_vars

----------------------------------------------------------------------------
(* The functions Rcpp__<kind>__catch_what(what) of src/src/exceptions.cpp, *)
(* one for each kind of the taxonomy: here call[t] is the activation of    *)
(* such a function.                                                        *)

\* no catch_what function running
IdleCatch ==
  [pc |-> "idle", kind |-> "", what |-> <<>>, e |-> NullPtr,
   handler |-> "", ret |-> <<>>]

\* Rcpp__<kind>__catch_what(what): `throw kind(what)` in a try block with
\* the handlers catch (const kind &e), returning std::string(e.what()),
\* catch (const std::exception &e) and catch (...), which both call
\* Rcpp::stop
catch_what(kind, what) ==
  LET e == Exception(kind, what)
  IN IF IsA(e.kind, kind)
     THEN [pc |-> "done", kind |-> kind, what |-> what, e |-> e,
           handler |-> kind, ret |-> What(e)]
     ELSE [pc |-> "done", kind |-> kind, what |-> what, e |-> e,
           handler |-> IF IsA(e.kind, "std::exception")
                       THEN "std::exception" ELSE "...",
           ret |-> <<>>]

InitExceptions ==
  /\ config_ = config_type0
  /\ call = [t \in Callers |-> IdleCatch]

\* thread t calls the catch_what function of one kind with a message
CatchWhat(t) ==
  /\ call[t].pc = "idle"
  /\ \E kind \in TaxonomyKinds, what \in Messages :
       call' = [call EXCEPT ![t] = catch_what(kind, what)]
  /\ UNCHANGED config_

\* the caller has taken the string returned
CatchReturn(t) ==
  /\ call[t].pc = "done"
  /\ call' = [call EXCEPT ![t] = IdleCatch]
  /\ UNCHANGED config_

NextExceptions ==
  \/ \E t \in Callers : CatchWhat(t)
  \/ \E t \in Callers : CatchReturn(t)

SpecExceptions == InitExceptions /\ [][NextExceptions]_vars

----------------------------------------------------------------------------
(* Two threads calling operator() of one integrator at the same time.  The *)
(* steps are those of Spec, with the inputs of each step drawn from        *)
(* smaller sets; the configuration is not modified while calls run.        *)

Threads == {1, 2}

InitThreads ==
  /\ config_ = config_type0
  /\ call = [t \in Threads |-> IdleCall]

\* thread t calls operator()(fn, 0., 1.)
ThreadCall(t) ==
  /\ Call(t)
  /\ call'[t].lower = Fin(0)
  /\ call'[t].upper = Fin(1)

\* the kernel of thread t calls integrand_callback with one point
ThreadCallback(t) ==
  /\ Callback(t)
  /\ Len(call'[t].x) = 1

\* the kernel entry of thread t returns (3, 1, 2, 42) with status 0 or 3
ThreadKernelReturn(t) ==
  /\ KernelReturn(t)
  /\ call'[t].out = return_type(Fin(3), Fin(1), 2, 42)
  /\ call'[t].ier \in {0, 3}
  /\ call'[t].limit = call[t].limit

NextThreads ==
  \/ \E t \in Threads : ThreadCall(t)
  \/ \E t \in Threads : ThreadCallback(t)
  \/ \E t \in Threads : ThreadKernelReturn(t)
  \/ \E t \in Threads : Finish(t)

SpecThreads == InitThreads /\ [][NextThreads]_vars

----------------------------------------------------------------------------
(* A caller that sets the fields of an integrator one by one between      *)
(* evaluations (the members, and Rcpp__integrator__set_* which pass their *)
(* argument to them): call[t].arg remembers, field by field, the value    *)
(* the caller gave last, at construction or to a setter.                  *)

InitSetters ==
  /\ config_ \in ConfigArgs
  /\ call = [t \in Callers |-> [IdleCall EXCEPT !.arg = config_]]

\* integrator::config(const config_type &)
SetterConfig(t) ==
  /\ call[t].pc = "idle"
  /\ \E c \in ConfigArgs :
       /\ config_' = set_config(config_, c)
       /\ call' = [call EXCEPT ![t].arg = c]

\* integrator::max_subdivisions(int), Rcpp__integrator__set_max_subdivisions
SetterMaxSubdivisions(t) ==
  /\ call[t].pc = "idle"
  /\ \E m \in MaxSubdivisionsArgs :
       /\ config_' = set_max_subdivisions(config_, m)
       /\ call' = [call EXCEPT ![t].arg.max_subdivisions = m]

\* integrator::relative_accuracy(double),
\* Rcpp__integrator__set_relative_accuracy
SetterRelativeAccuracy(t) ==
  /\ call[t].pc = "idle"
  /\ \E r \in RelativeAccuracyArgs :
       /\ config_' = set_relative_accuracy(config_, r)
       /\ call' = [call EXCEPT ![t].arg.relative_accuracy = r]

\* integrator::absolute_accuracy(double),
\* Rcpp__integrator__set_absolute_accuracy
SetterAbsoluteAccuracy(t) ==
  /\ call[t].pc = "idle"
  /\ \E a \in AbsoluteAccuracyArgs :
       /\ config_' = set_absolute_accuracy(config_, a)
       /\ call' = [call EXCEPT ![t].arg.absolute_accuracy = a]

\* integrator::work_size(int), Rcpp__integrator__set_work_size
SetterWorkSize(t) ==
  /\ call[t].pc = "idle"
  /\ \E w \in WorkSizeArgs :
       /\ config_' = set_work_size(config_, w)
       /\ call' = [call EXCEPT ![t].arg.work_size = w]

\* the next evaluation: operator()(fn, 0., 1.)
SetterEvaluate(t) ==
  /\ call[t].pc = "idle"
  /\ \E bad \in throw_if_invalid_config(config_) :
       call' = [call EXCEPT ![t] =
                  [Enter(config_, Fin(0), Fin(1), bad)
                     EXCEPT !.arg = call[t].arg]]
  /\ UNCHANGED config_

\* the callbacks of that evaluation, one point a batch
SetterCallback(t) ==
  /\ Callback(t)
  /\ Len(call'[t].x) = 1

\* the caller has taken the result or handled the exception
SetterFinish(t) ==
  /\ call[t].pc = "done"
  /\ call[t].res.status # "aborted"
  /\ call' = [call EXCEPT ![t] = [IdleCall EXCEPT !.arg = call[t].arg]]
  /\ UNCHANGED config_

NextSetters ==
  \/ \E t \in Callers : SetterConfig(t)
  \/ \E t \in Callers : SetterMaxSubdivisions(t)
  \/ \E t \in Callers : SetterRelativeAccuracy(t)
  \/ \E t \in Callers : SetterAbsoluteAccuracy(t)
  \/ \E t \in Callers : SetterWorkSize(t)
  \/ \E t \in Callers : SetterEvaluate(t)
  \/ \E t \in Callers : SetterCallback(t)
  \/ \E t \in Callers : KernelReturn(t)
  \/ \E t \in Callers : SetterFinish(t)

SpecSetters == InitSetters /\ [][NextSetters]_vars

----------------------------------------------------------------------------
(* The functions exported to R (src/src/integrator.cpp, integrate.cpp).   *)
(* config_ is the integrator behind the external pointer, made by         *)
(* Rcpp__integrator__new; Rcpp__integrate works on a temporary of its     *)
(* own.  The user function is an R function called through Rcpp.          *)

\* what the R function may do at a point: return a number, raise an R
\* error that Rcpp throws as an Rcpp::exception or, depending on the
\* version of Rcpp, as an exception that is not a std::exception; run out
\* of memory
RFnOutcomes ==
  {Ret(Fin(3)), Ret(PosInf),
   Throw(Exception("Rcpp::exception", "boom")),
   Throw(Exception("Rcpp::LongjumpException", "")),
   Throw(Exception("std::bad_alloc", "std::bad_alloc"))}

\* the arguments R passes
PtrArgs == {"valid", "null"}
BindingLowerArgs == {NaN, Fin(0)}
BindingUpperArgs == {Fin(1)}
RcppIntegrateArgs ==
  {config_type(100, pow_epsilon_quarter, pow_epsilon_quarter, 400),
   config_type(0, pow_epsilon_quarter, pow_epsilon_quarter, 400)}

\* *ptr of an external pointer that is not valid
InvalidPtr == Exception("Rcpp::exception", "external pointer is not valid")

\* the handlers with the one for std::exception placed first
integrate_catch_std_first(res) ==
  IF res.status = "returned"
  THEN HostList(res.out.value, res.out.absolute_error, res.out.subdivisions,
                "OK")
  ELSE LET e == res.exc
       IN IF IsA(e.kind, "std::exception") THEN HostStop(e.what)
          ELSE HostStop("Unexcpected error")

\* the try block and the handlers of Rcpp__integrator__integrate and of
\* Rcpp__integrate, then the list they return: res is how the integration
\* ended (what() of the exceptions here is the literal they were built
\* from)
integrate_catch(res) ==
  IF res.status = "returned"
  THEN HostList(res.out.value, res.out.absolute_error, res.out.subdivisions,
                "OK")
  ELSE LET e == res.exc
       IN IF IsA(e.kind, "Rcpp::exception") THEN HostStop(e.what)
          ELSE IF IsA(e.kind, "integration_runtime_error")
          THEN HostList(Result(e).value, Result(e).absolute_error,
                        Result(e).subdivisions, e.what)
          ELSE IF IsA(e.kind, "integration_logic_error")
          THEN HostList(Result(e).value, Result(e).absolute_error,
                        Result(e).subdivisions, e.what)
          ELSE IF IsA(e.kind, "std::exception") THEN HostStop(e.what)
          ELSE HostStop("Unexcpected error")

\* the handlers of Rcpp__integrator__throw_if_invalid
throw_if_invalid_catch(res) ==
  IF res.status = "returned" THEN HostVoid
  ELSE LET e == res.exc
       IN IF IsA(e.kind, "Rcpp::exception") THEN HostStop("Not initialized")
          ELSE IF IsA(e.kind, "invalid_input_error") THEN HostStop(e.what)
          ELSE HostStop("Unknown error")

InitBindings ==
  /\ config_ \in ConfigArgs
  /\ call = [t \in Callers |-> IdleCall]

\* Rcpp__integrator__integrate(ptr, fn, lower, upper) up to the kernel call
Rcpp__integrator__integrate(t) ==
  /\ call[t].pc = "idle"
  /\ \E ptr \in PtrArgs, lower \in BindingLowerArgs,
        upper \in BindingUpperArgs :
       \E bad \in throw_if_invalid_config(config_) :
         call' = [call EXCEPT ![t] =
                    IF ptr = "null"
                    THEN [IdleCall EXCEPT
                            !.pc = "done", !.res = Raised(InvalidPtr),
                            !.binding = "Rcpp__integrator__integrate"]
                    ELSE [Enter(config_, lower, upper, bad) EXCEPT
                            !.binding = "Rcpp__integrator__integrate"]]
  /\ UNCHANGED config_

\* Rcpp__integrate(fn, lower, upper, max_subdivisions, relative_accuracy,
\* absolute_accuracy, work_size) up to the kernel call
Rcpp__integrate(t) ==
  /\ call[t].pc = "idle"
  /\ \E cfg \in RcppIntegrateArgs, lower \in BindingLowerArgs,
        upper \in BindingUpperArgs :
       \E bad \in throw_if_invalid_config(integrator(cfg)) :
         call' = [call EXCEPT ![t] =
                    [Enter(integrator(cfg), lower, upper, bad) EXCEPT
                       !.arg = cfg, !.binding = "Rcpp__integrate"]]
  /\ UNCHANGED config_

\* Rcpp__integrator__throw_if_invalid(ptr) up to the kernel call of the
\* dummy integration
Rcpp__integrator__throw_if_invalid(t) ==
  /\ call[t].pc = "idle"
  /\ \E ptr \in PtrArgs :
       \E bad \in throw_if_invalid_config(config_) :
         call' = [call EXCEPT ![t] =
                    IF ptr = "null"
                    THEN [IdleCall EXCEPT
                            !.pc = "done", !.res = Raised(InvalidPtr),
                            !.binding = "Rcpp__integrator__throw_if_invalid"]
                    ELSE [Enter(config_, Fin(0), Fin(1), bad) EXCEPT
                            !.binding = "Rcpp__integrator__throw_if_invalid"]]
  /\ UNCHANGED config_

\* a batch of one point, the integrand being fn_, which calls the R function
BindingCallback(t) ==
  /\ call[t].pc = "kernel"
  /\ call[t].binding # "Rcpp__integrator__throw_if_invalid"
  /\ \E fs \in [1..1 -> RFnOutcomes] : integrand_callback(t, 1, fs)
  /\ UNCHANGED config_

\* a batch of the dummy integration, the integrand being
\* [](const double) { return 0.; }
DummyCallback(t) ==
  /\ call[t].pc = "kernel"
  /\ call[t].binding = "Rcpp__integrator__throw_if_invalid"
  /\ \E n \in 1..MaxBatchLen :
       integrand_callback(t, n, [i \in 1..n |-> Ret(Fin(0))])
  /\ UNCHANGED config_

\* the rest of the binding function: the handlers and the return to R
BindingReturn(t) ==
  /\ call[t].pc = "done"
  /\ call[t].res.status # "aborted"
  /\ call' = [call EXCEPT
               ![t].pc = "host",
               ![t].host =
                 IF call[t].binding = "Rcpp__integrator__throw_if_invalid"
                 THEN throw_if_invalid_catch(call[t].res)
                 ELSE integrate_catch(call[t].res)]
  /\ UNCHANGED config_

\* R has taken the list or the error
BindingFinish(t) ==
  /\ call[t].pc = "host"
  /\ call' = [call EXCEPT ![t] = IdleCall]
  /\ UNCHANGED config_

NextBindings ==
  \/ \E t \in Callers : Rcpp__integrator__integrate(t)
  \/ \E t \in Callers : Rcpp__integrate(t)
  \/ \E t \in Callers : Rcpp__integrator__throw_if_invalid(t)
  \/ \E t \in Callers : BindingCallback(t)
  \/ \E t \in Callers : DummyCallback(t)
  \/ \E t \in Callers : KernelReturn(t)
  \/ \E t \in Callers : BindingReturn(t)
  \/ \E t \in Callers : BindingFinish(t)

SpecBindings == InitBindings /\ [][NextBindings]_vars

----------------------------------------------------------------------------
(* The properties *)

\* the three invariants of a configuration as the documentation states
\* them (lines 148-149, 155-156, 169), over the mathematical integers
SatisfiesInvariants(config) ==
  /\ config.max_subdivisions >= 1
  /\ ~(/\ dle(config.absolute_accuracy, Fin(0))
       /\ dlt(config.relative_accuracy, threshold))
  /\ config.max_subdivisions <= config.work_size \div 4

\* the activation ended by throwing invalid_input_error
RaisedInvalidInput(c) ==
  /\ c.pc = "done"
  /\ c.res.status = "raised"
  /\ c.res.exc.kind = "invalid_input_error"
  /\ IsA(c.res.exc.kind, "integration_logic_error")
  /\ IsA(c.res.exc.kind, "std::logic_error")

\* C1: a call with lower = NaN or upper = NaN ends by throwing
\* invalid_input_error, and in that call no kernel entry and no user
\* function is invoked.
C1_NaNBoundsRejected ==
  \A t \in Callers :
    LET c == call[t]
    IN (c.pc # "idle" /\ (isnan(c.lower) \/ isnan(c.upper)))
         => /\ RaisedInvalidInput(c)
            /\ c.kcalls = 0
            /\ c.kernel.entry = "none"
            /\ ~c.invoked

\* C1 witness: a call with a NaN bound on a configuration that satisfies
\* the invariants has been rejected.
C1_Witness ==
  \E t \in Callers :
    /\ call[t].pc = "done"
    /\ isnan(call[t].upper)
    /\ ~isnan(call[t].lower)
    /\ SatisfiesInvariants(config_)
    /\ RaisedInvalidInput(call[t])

\* C2: a call on a configuration that violates one of the three invariants
\* ends by throwing invalid_input_error with the all-zero result, and no
\* kernel entry is invoked.
C2_InvalidConfigRejected ==
  \A t \in Callers :
    LET c == call[t]
    IN (c.pc # "idle" /\ ~SatisfiesInvariants(config_))
         => /\ RaisedInvalidInput(c)
            /\ c.res.exc.result = ZeroResult
            /\ c.kcalls = 0
            /\ c.kernel.entry = "none"

\* C3: a call on a configuration that satisfies the invariants, with bounds
\* that are not NaN, is not rejected by validation and invokes one kernel
\* entry once, with an index array of max_subdivisions elements and a
\* working array of work_size elements.
C3_ValidCallInvokesKernelOnce ==
  \A t \in Callers :
    LET c == call[t]
    IN (/\ c.pc # "idle"
        /\ SatisfiesInvariants(config_)
        /\ ~isnan(c.lower)
        /\ ~isnan(c.upper))
         => /\ ~RaisedInvalidInput(c)
            /\ c.kcalls = 1
            /\ c.kernel.entry \in {"Rdqags", "Rdqagi"}
            /\ c.iwork = config_.max_subdivisions
            /\ c.work = config_.work_size

\* C3 witness: such a call has gone through the kernel and returned.
C3_Witness ==
  \E t \in Callers :
    /\ call[t].pc = "done"
    /\ call[t].res.status = "returned"
    /\ SatisfiesInvariants(config_)
    /\ call[t].kcalls = 1
    /\ call[t].iwork = 100
    /\ call[t].work = 400

\* C4: the kernel entry and its bounds arguments are a function of the two
\* bounds: Rdqags with lower and upper when both are finite, otherwise
\* Rdqagi with (1, lower) if lower is finite, else (-1, upper) if upper is
\* finite, else (2, 0).
C4_Dispatch ==
  \A t \in Callers :
    LET c == call[t]
    IN c.kcalls > 0
         => IF isfinite(c.lower) /\ isfinite(c.upper)
            THEN /\ c.kernel.entry = "Rdqags"
                 /\ c.kernel.a = c.lower
                 /\ c.kernel.b = c.upper
            ELSE /\ c.kernel.entry = "Rdqagi"
                 /\ <<c.kernel.inf, c.kernel.bound>> =
                      IF isfinite(c.lower) THEN <<1, c.lower>>
                      ELSE IF isfinite(c.upper) THEN <<-1, c.upper>>
                      ELSE <<2, Fin(0)>>

\* C4 witness: Rdqagi has been entered for an upper-bounded half-line.
C4_Witness ==
  \E t \in Callers :
    /\ call[t].pc = "kernel"
    /\ call[t].lower = NegInf
    /\ call[t].upper = Fin(1)
    /\ call[t].kernel.entry = "Rdqagi"
    /\ call[t].kernel.inf = -1

\* C5: a call during which the user function threw never returns a result:
\* whatever the kernel returns afterwards, the call ends by throwing.
C5_UserThrowNeverReturns ==
  \A t \in Callers :
    (call[t].pc = "done" /\ call[t].threw) => call[t].res.status = "raised"

\* C5 witness: the user function threw, the kernel returned status 0 and
\* the call ended by throwing.
C5_Witness ==
  \E t \in Callers :
    /\ call[t].pc = "done"
    /\ call[t].threw
    /\ call[t].ier = 0
    /\ call[t].out # ZeroResult
    /\ call[t].res.status = "raised"
    /\ call[t].res.exc.what = "boom"

\* the call ended by throwing the "non-finite function value" error
RaisedNonFinite(c) ==
  /\ c.res.status = "raised"
  /\ c.res.exc.kind = "integration_runtime_error"
  /\ c.res.exc.what = "non-finite function value"

\* C6 as stated: a call during which the user function returned a
\* non-finite value ends with the "non-finite function value" error,
\* whatever the user function does at the other points.
C6_NonFiniteAlwaysReported ==
  \A t \in Callers :
    (call[t].pc = "done" /\ call[t].nonfinite) => RaisedNonFinite(call[t])

\* C6 amended: a call during which the user function returned a non-finite
\* value ends by throwing, and the error is the "non-finite function
\* value" error if the user function threw at no point of the call.
C6_NonFiniteReportedUnlessThrow ==
  \A t \in Callers :
    (call[t].pc = "done" /\ call[t].nonfinite)
      => /\ call[t].res.status = "raised"
         /\ ~call[t].threw => RaisedNonFinite(call[t])

\* C6 witness: a non-finite value, no throw, and the call ended with the
\* "non-finite function value" error.
C6_Witness ==
  \E t \in Callers :
    /\ call[t].pc = "done"
    /\ call[t].nonfinite
    /\ ~call[t].threw
    /\ call[t].ier = 0
    /\ RaisedNonFinite(call[t])

\* C7: when the exception slot holds a failure and the kernel returns a
\* nonzero status code, the call throws the captured failure.
C7_CapturedFailureWins ==
  \A t \in Callers :
    LET c == call[t]
    IN (c.pc = "done" /\ c.e_ptr # NullPtr /\ c.ier # 0)
         => c.res = Raised(c.e_ptr)

\* C7 witness: a captured failure was thrown although the kernel returned
\* status 3.
C7_Witness ==
  \E t \in Callers :
    /\ call[t].pc = "done"
    /\ call[t].e_ptr.what = "boom"
    /\ call[t].ier = 3
    /\ call[t].res = Raised(call[t].e_ptr)

\* C8: with an empty exception slot and a status code in 1..5 the call
\* throws the kind mapped to the code, carrying the result the kernel
\* returned.
C8_StatusCodeMapping ==
  \A t \in Callers :
    LET c == call[t]
    IN (c.pc = "done" /\ c.e_ptr = NullPtr /\ c.ier \in 1..5)
         => /\ c.res.status = "raised"
            /\ c.res.exc.kind = StatusKinds[c.ier]
            /\ IsA(c.res.exc.kind, "integration_runtime_error")
            /\ c.res.exc.result = c.out

\* C8 witness: status 4 was thrown as extrapolation_roundoff_error with a
\* result that is not all-zero.
C8_Witness ==
  \E t \in Callers :
    /\ call[t].pc = "done"
    /\ call[t].e_ptr = NullPtr
    /\ call[t].ier = 4
    /\ call[t].out # ZeroResult
    /\ call[t].res.exc.kind = "extrapolation_roundoff_error"
    /\ call[t].res.exc.result = call[t].out

\* C9 as stated: with an empty exception slot and status code 6 the call
\* throws invalid_input_error.
C9_Status6IsInvalidInput ==
  \A t \in Callers :
    LET c == call[t]
    IN (c.pc = "done" /\ c.e_ptr = NullPtr /\ c.ier = 6)
         => RaisedInvalidInput(c)

\* C9 amended: with an empty exception slot and status code 6 the call
\* either is aborted by assert(error_code < 6) or throws a std::logic_error
\* that is no integration_logic_error and has no result().
C9_Status6IsPlainLogicError ==
  \A t \in Callers :
    LET c == call[t]
    IN (c.pc = "done" /\ c.e_ptr = NullPtr /\ c.ier = 6)
         => \/ c.res.status = "aborted"
            \/ /\ c.res.status = "raised"
               /\ c.res.exc.kind = "std::logic_error"
               /\ ~IsA(c.res.exc.kind, "integration_logic_error")
               /\ ~HasResult(c.res.exc.kind)

\* C9 witness: status 6 was thrown as a std::logic_error.
C9_Witness ==
  \E t \in Callers :
    /\ call[t].pc = "done"
    /\ call[t].e_ptr = NullPtr
    /\ call[t].ier = 6
    /\ call[t].res.status = "raised"
    /\ call[t].res.exc.kind = "std::logic_error"

\* C10: with an empty exception slot and a status code outside 0..6 the
\* call does not return a result, and what it throws is no kind of the
\* taxonomy.
C10_UnknownStatusFails ==
  \A t \in Callers :
    LET c == call[t]
    IN (c.pc = "done" /\ c.e_ptr = NullPtr /\ c.ier \notin 0..6)
         => /\ c.res.status # "returned"
            /\ c.res.status = "raised" => c.res.exc.kind \notin TaxonomyKinds

\* the kernel entry of the activation has returned
KernelReturned(c) == c.pc = "done" /\ c.kreturned

\* C11: every integration error thrown after the kernel has returned,
\* the captured "non-finite function value" and "Unknown error" errors
\* included, has as result() the four values the kernel returned in that
\* call.
C11_ErrorsCarryKernelResult ==
  \A t \in Callers :
    LET c == call[t]
    IN (/\ KernelReturned(c)
        /\ c.res.status = "raised"
        /\ HasResult(c.res.exc.kind))
         => c.res.exc.result = c.out

\* C12: when the kernel returns status code 0 and the exception slot is
\* empty, the call throws nothing and returns the four values the kernel
\* wrote to result, abserr, last and neval.
C12_SuccessReturnsKernelOutput ==
  \A t \in Callers :
    LET c == call[t]
    IN (KernelReturned(c) /\ c.ier = 0 /\ c.e_ptr = NullPtr)
         => c.res = Returned(c.out)

\* C12 witness: a call whose user function was invoked returned the
\* kernel's values (3, 1, 2, 42).
C12_Witness ==
  \E t \in Callers :
    /\ KernelReturned(call[t])
    /\ call[t].invoked
    /\ call[t].ier = 0
    /\ call[t].e_ptr = NullPtr
    /\ call[t].out = return_type(Fin(3), Fin(1), 2, 42)
    /\ call[t].res = Returned(call[t].out)

\* C13: during and after a call, however it ends, config_ holds the four
\* values it held when the call began, also when the kernel stored through
\* the pointers to limit, lenw, epsrel, epsabs and bound.
C13_ConfigUnchangedByCall ==
  \A t \in Callers :
    call[t].pc # "idle" => config_ = call[t].config

\* C13 witness: the kernel stored through the pointers (limit, lenw and
\* the accuracies differ from the configuration), the call threw, and
\* config_ is what it was.
C13_Witness ==
  \E t \in Callers :
    LET c == call[t]
    IN /\ KernelReturned(c)
       /\ c.res.status = "raised"
       /\ c.limit # c.config.max_subdivisions
       /\ c.lenw # c.config.work_size
       /\ c.epsrel # c.config.relative_accuracy
       /\ c.epsabs # c.config.absolute_accuracy
       /\ c.bound = Fin(7)
       /\ config_ = c.config

\* C14: an activation whose own user function neither threw nor returned
\* a non-finite value has an empty exception slot, whatever other
\* activations on the same integrator, earlier or running at the same time
\* on another thread, have captured; when its kernel returns status code 0
\* it returns the kernel's result.
C14_FreshFailureSlot ==
  \A t \in DOMAIN call :
    LET c == call[t]
    IN (c.pc # "idle" /\ ~c.threw /\ ~c.nonfinite)
         => /\ c.e_ptr = NullPtr
            /\ (KernelReturned(c) /\ c.ier = 0) => c.res = Returned(c.out)

\* C14 witness: thread 1 has returned a result with status code 0 while the
\* running call of thread 2 holds the captured failure "boom".
C14_Witness ==
  /\ DOMAIN call = Threads
  /\ KernelReturned(call[1])
  /\ call[1].invoked
  /\ call[1].ier = 0
  /\ call[1].res = Returned(call[1].out)
  /\ call[2].pc = "kernel"
  /\ call[2].e_ptr.what = "boom"

\* subdivisions of the Outcome an ended activation returned or attached to
\* the integration error it threw (0 when it carries none)
SubdivisionsOf(c) ==
  IF c.res.status = "returned" THEN c.res.out.subdivisions
  ELSE IF c.res.status = "raised" /\ HasResult(c.res.exc.kind)
  THEN c.res.exc.result.subdivisions
  ELSE 0

IsFourTimes(w, m) == w % 4 = 0 /\ w \div 4 = m

\* C16: a config_ built by the default constructor is (100, epsilon^0.25,
\* epsilon^0.25, 400); built from (max_subdivisions, relative_accuracy) it
\* has absolute_accuracy = relative_accuracy and work_size = 4 *
\* max_subdivisions; built from (max_subdivisions, relative_accuracy,
\* absolute_accuracy) it has work_size = 4 * max_subdivisions; built from
\* four arguments it holds them as given.
C16_ConstructorsFillDefaults ==
  /\ config_ = config_type0
       => /\ config_.max_subdivisions = 100
          /\ config_.relative_accuracy = pow_epsilon_quarter
          /\ config_.absolute_accuracy = pow_epsilon_quarter
          /\ config_.work_size = 400
  /\ \A m \in MaxSubdivisionsArgs, r \in RelativeAccuracyArgs :
       config_ = config_type2(m, r)
         => /\ config_.max_subdivisions = m
            /\ config_.relative_accuracy = r
            /\ config_.absolute_accuracy = r
            /\ IsFourTimes(config_.work_size, m)
  /\ \A m \in MaxSubdivisionsArgs, r \in RelativeAccuracyArgs,
        a \in AbsoluteAccuracyArgs :
       config_ = config_type3(m, r, a)
         => /\ config_.max_subdivisions = m
            /\ config_.relative_accuracy = r
            /\ config_.absolute_accuracy = a
            /\ IsFourTimes(config_.work_size, m)
  /\ \A m \in MaxSubdivisionsArgs, r \in RelativeAccuracyArgs,
        a \in AbsoluteAccuracyArgs, w \in WorkSizeArgs :
       config_ = config_type(m, r, a, w)
         => /\ config_.max_subdivisions = m
            /\ config_.relative_accuracy = r
            /\ config_.absolute_accuracy = a
            /\ config_.work_size = w

\* C17: a call integrate(fn, lower, upper, config) is the call of
\* operator()(fn, lower, upper) on an integrator whose configuration is
\* config (an omitted config being the default configuration): it is
\* validated against config, enters the kernel as that call does, and ends
\* as throw_if_error ends that call for what the user function and the
\* kernel did.
C17_IntegrateIsIntegratorCall ==
  \A t \in Callers :
    LET c == call[t]
    IN c.pc # "idle"
         => /\ config_ = c.arg
            /\ c.config = c.arg
            /\ \E bad \in throw_if_invalid_config(c.arg) :
                 LET e == Enter(c.arg, c.lower, c.upper, bad)
                 IN /\ c.kcalls = e.kcalls
                    /\ c.kernel = e.kernel
                    /\ c.iwork = e.iwork
                    /\ c.work = e.work
                    /\ c.kcalls = 0 => c.res = e.res
            /\ KernelReturned(c)
                 => \E ndebug \in BOOLEAN :
                      c.res = throw_if_error(c.ier, c.e_ptr, c.out, ndebug)

\* C17 witness: integrate with a configuration that is not the default one
\* went through the kernel and threw roundoff_error with the kernel's result.
C17_Witness ==
  \E t \in Callers :
    LET c == call[t]
    IN /\ KernelReturned(c)
       /\ c.arg = config_type(100, Fin(50), Fin(0), 400)
       /\ c.limit = 100
       /\ c.ier = 2
       /\ c.res = Raised(IntegrationError("roundoff_error",
                                          "roundoff error was detected", c.out))

\* C18: an error a call throws with one of the five kinds of the status
\* codes is caught as integration_runtime_error and not as
\* integration_logic_error; an invalid_input_error is caught as
\* integration_logic_error and not as integration_runtime_error; both
\* superclasses have result(), which returns the result the error was
\* constructed with (the kernel's for a status code, the all-zero one for
\* an error constructed from a message alone).
C18_Hierarchy ==
  /\ HasResult("integration_runtime_error")
  /\ HasResult("integration_logic_error")
  /\ \A t \in Callers :
       LET c == call[t]
           k == c.res.exc.kind
       IN (c.pc = "done" /\ c.res.status = "raised")
            => /\ k \in {StatusKinds[i] : i \in 1..5}
                    => /\ IsA(k, "integration_runtime_error")
                       /\ IsA(k, "std::runtime_error")
                       /\ ~IsA(k, "integration_logic_error")
                       /\ ~IsA(k, "std::logic_error")
                       /\ Result(c.res.exc) = c.out
               /\ k = "invalid_input_error"
                    => /\ IsA(k, "integration_logic_error")
                       /\ IsA(k, "std::logic_error")
                       /\ ~IsA(k, "integration_runtime_error")
                       /\ ~IsA(k, "std::runtime_error")
                       /\ Result(c.res.exc) = ZeroResult

\* C18 witness: a call threw divergence_error, caught as
\* integration_runtime_error, whose result() is the kernel's (3, 1, 101, 42).
C18_Witness ==
  \E t \in Callers :
    LET c == call[t]
    IN /\ c.pc = "done"
       /\ c.res.status = "raised"
       /\ c.res.exc.kind = "divergence_error"
       /\ IsA(c.res.exc.kind, "integration_runtime_error")
       /\ Result(c.res.exc) = return_type(Fin(3), Fin(1), 101, 42)

\* C19 as stated: for each of the eight kinds and every message m, an
\* error of the kind constructed from m alone is caught by the handler for
\* that kind, its what() is m and its result() is the all-zero result.
C19_MessageOnlyErrorAnyMessage ==
  \A t \in Callers :
    LET c == call[t]
    IN c.pc = "done"
         => /\ c.handler = c.kind
            /\ c.ret = c.what
            /\ Result(c.e) = ZeroResult

\* C19 amended: the same for every message m that holds no NUL character;
\* for any m, what() is m up to its first NUL.
C19_MessageOnlyErrorCString ==
  \A t \in Callers :
    LET c == call[t]
    IN c.pc = "done"
         => /\ c.handler = c.kind
            /\ Result(c.e) = ZeroResult
            /\ (\A i \in 1..Len(c.what) : c.what[i] # NUL) => c.ret = c.what
            /\ \E n \in 0..Len(c.what) :
                 /\ c.ret = SubSeq(c.what, 1, n)
                 /\ n < Len(c.what) => c.what[n + 1] = NUL

\* C19 witness: an invalid_input_error constructed from "ab" was caught as
\* invalid_input_error with what() = "ab" and the all-zero result.
C19_Witness ==
  \E t \in Callers :
    LET c == call[t]
    IN /\ c.pc = "done"
       /\ c.kind = "invalid_input_error"
       /\ c.what = <<"a", "b">>
       /\ c.handler = "invalid_input_error"
       /\ c.ret = <<"a", "b">>
       /\ Result(c.e) = ZeroResult

\* C20: when the user function throws at a point of a batch of n points,
\* then unless it threw std::bad_alloc the callback returns to the kernel
\* (the call is still in the kernel), the user function was not invoked
\* for the points after that one, the n slots of the batch are 0 and the
\* exception slot is not empty.
C20_ThrowStopsBatch ==
  \A t \in Callers :
    LET c == call[t]
    IN c.xthrow > 0
         => IF c.pc = "kernel"
            THEN /\ c.xcalls = c.xthrow
                 /\ c.xthrow <= Len(c.x)
                 /\ \A i \in 1..Len(c.x) : c.x[i] = Fin(0)
                 /\ c.e_ptr # NullPtr
            ELSE /\ c.pc = "done"
                 /\ c.res.status = "raised"
                 /\ c.res.exc.kind = "std::bad_alloc"

\* C20 witness: the user function threw "boom" at the first of two points;
\* the callback returned with both slots 0 after one invocation and the
\* slot holds "boom".
C20_Witness ==
  \E t \in Callers :
    LET c == call[t]
    IN /\ c.pc = "kernel"
       /\ c.xthrow = 1
       /\ c.xcalls = 1
       /\ c.x = <<Fin(0), Fin(0)>>
       /\ c.e_ptr = Exception("std::runtime_error", "boom")

\* C21: whenever the callback has returned to the kernel, also for a batch
\* evaluated after an earlier batch stored a failure, no slot of the batch
\* holds a non-finite value: a batch in which the user function returned
\* one has all its slots 0.
C21_KernelNeverReadsNonFinite ==
  \A t \in Callers :
    LET c == call[t]
    IN c.pc = "kernel" => \A i \in 1..Len(c.x) : isfinite(c.x[i])

\* C22: when the user function raises std::bad_alloc in a batch, that
\* exception leaves the callback and operator() at once, before the kernel
\* entry has returned; the exception slot keeps what it held before the
\* batch, and the slots of the batch are not reset to 0: those before the
\* throwing point hold the function values, the others still the points.
C22_BadAllocPropagates ==
  [][\A t \in Callers :
       (/\ call[t].pc = "kernel"
        /\ call'[t].xthrow > 0
        /\ call'[t].thrown.kind = "std::bad_alloc")
         => /\ call'[t].pc = "done"
            /\ ~call'[t].kreturned
            /\ call'[t].res = Raised(call'[t].thrown)
            /\ call'[t].e_ptr = call[t].e_ptr
            /\ call'[t].xcalls = call'[t].xthrow
            /\ \A i \in 1..Len(call'[t].x) :
                 /\ i >= call'[t].xthrow
                      => call'[t].x[i] = Points(Len(call'[t].x))[i]
                 /\ call'[t].x[i] # Fin(0)]_vars

\* std::bad_alloc was raised at the second point of a batch while the slot
\* held the failure of an earlier batch
C22_Witness ==
  \E t \in Callers :
    /\ call[t].pc = "done"
    /\ call[t].thrown.kind = "std::bad_alloc"
    /\ call[t].res = Raised(call[t].thrown)
    /\ call[t].e_ptr = Exception("std::runtime_error", "boom")
    /\ call[t].xthrow = 2
    /\ call[t].x = <<Fin(3), Fin(2)>>

\* C23: no setter fails or validates, and each changes only the field it
\* names: at any time each getter returns the value the caller gave last
\* for its field (at construction or to a setter), valid or not.  Validity
\* is checked by the next evaluation only, and on the current values alone:
\* it throws invalid_input_error before the kernel is called only if these
\* values violate an invariant, and calls the kernel only if validation
\* accepts them.
C23_SettersOnlyStore ==
  \A t \in Callers :
    LET c == call[t]
    IN /\ get_config(config_) = c.arg
       /\ get_max_subdivisions(config_) = c.arg.max_subdivisions
       /\ get_relative_accuracy(config_) = c.arg.relative_accuracy
       /\ get_absolute_accuracy(config_) = c.arg.absolute_accuracy
       /\ get_work_size(config_) = c.arg.work_size
       /\ c.pc = "idle" =>
            /\ ENABLED SetterConfig(t)
            /\ ENABLED SetterMaxSubdivisions(t)
            /\ ENABLED SetterRelativeAccuracy(t)
            /\ ENABLED SetterAbsoluteAccuracy(t)
            /\ ENABLED SetterWorkSize(t)
       /\ c.pc # "idle" =>
            /\ c.config = c.arg
            /\ c.kcalls = 0 =>
                 /\ TRUE \in throw_if_invalid_config(c.arg)
                 /\ c.pc = "done" /\ RaisedInvalidInput(c)
            /\ c.kcalls = 1 => FALSE \in throw_if_invalid_config(c.arg)

\* the setters stored a limit of 0 and a relative accuracy below the
\* threshold next to an absolute accuracy of 0 (two invariants violated)
\* without failing, and the next evaluation threw invalid_input_error
C23_Witness ==
  \E t \in Callers :
    LET c == call[t]
    IN /\ c.pc = "done"
       /\ RaisedInvalidInput(c)
       /\ get_max_subdivisions(config_) = 0
       /\ get_relative_accuracy(config_) = Fin(49)
       /\ get_absolute_accuracy(config_) = Fin(0)
       /\ get_work_size(config_) = 400

\* C24: a call in which the user function raised something ends by raising
\* an exception.  When what the user function raised (last) is a
\* std::exception, the call raises that exception, of the same class and
\* with the same what(); when it is anything else, the call raises an
\* integration_runtime_error with what() = "Unknown error".
C24_UserErrorRethrown ==
  \A t \in Callers :
    LET c == call[t]
    IN (c.pc = "done" /\ c.thrown # NullPtr)
         => /\ c.res.status = "raised"
            /\ IsA(c.thrown.kind, "std::exception")
                 => /\ c.res.exc.kind = c.thrown.kind
                    /\ c.res.exc.what = c.thrown.what
                    /\ c.res.exc = c.thrown
            /\ ~IsA(c.thrown.kind, "std::exception")
                 => /\ c.res.exc.kind = "integration_runtime_error"
                    /\ c.res.exc.what = "Unknown error"

\* the kernel returned status 1 after the user function threw
\* std::runtime_error("boom"), and the call raised that exception
C24_Witness ==
  \E t \in Callers :
    LET c == call[t]
    IN /\ KernelReturned(c)
       /\ c.ier = 1
       /\ c.thrown = Exception("std::runtime_error", "boom")
       /\ c.res = Raised(Exception("std::runtime_error", "boom"))

\* the user function threw an int, and the call raised the "Unknown error"
C24_WitnessUnknown ==
  \E t \in Callers :
    LET c == call[t]
    IN /\ KernelReturned(c)
       /\ c.thrown = Exception("int", "")
       /\ c.res.exc.what = "Unknown error"

\* C25: Rcpp__integrate and Rcpp__integrator__integrate return a list whose
\* message is "OK" exactly when the integration returned a result, and
\* then value, abs.error and subdivisions are those of the result; when
\* the integration raised an integration_runtime_error or an
\* integration_logic_error they return a list with the error's what() as
\* message and value, abs.error and subdivisions from the error's
\* result(); when it raised anything else they call Rcpp::stop and return
\* no list.
C25_BindingsTranslate ==
  \A t \in Callers :
    LET c == call[t]
        e == c.res.exc
    IN (/\ c.pc = "host"
        /\ c.binding \in {"Rcpp__integrate", "Rcpp__integrator__integrate"})
         => /\ (c.host.t = "list" /\ c.host.message = "OK")
                 <=> c.res.status = "returned"
            /\ c.res.status = "returned"
                 => c.host = HostList(c.res.out.value,
                                      c.res.out.absolute_error,
                                      c.res.out.subdivisions, "OK")
            /\ (c.res.status = "raised" /\ HasResult(e.kind))
                 => c.host = HostList(Result(e).value,
                                      Result(e).absolute_error,
                                      Result(e).subdivisions, e.what)
            /\ (c.res.status = "raised" /\ ~HasResult(e.kind))
                 => c.host.t = "stop"

\* Rcpp__integrate returned the list (3, 1, 101, "maximum number of
\* subdivisions reached") after the kernel returned status 1
C25_Witness ==
  \E t \in Callers :
    LET c == call[t]
    IN /\ c.pc = "host"
       /\ c.binding = "Rcpp__integrate"
       /\ c.res.status = "raised"
       /\ c.res.exc.kind = "max_subdivision_error"
       /\ c.host = HostList(Fin(3), Fin(1), 101,
                            "maximum number of subdivisions reached")

\* Rcpp__integrator__integrate stopped with the R function's error
C25_WitnessStop ==
  \E t \in Callers :
    LET c == call[t]
    IN /\ c.pc = "host"
       /\ c.binding = "Rcpp__integrator__integrate"
       /\ c.thrown.kind = "Rcpp::exception"
       /\ c.host = HostStop("boom")

\* C26: called on a valid external pointer, Rcpp__integrator__throw_if_invalid
\* raises an R error if and only if the current configuration violates one
\* of the three invariants; for a valid configuration it returns normally
\* whatever status code the kernel returned for the dummy integration.
C26_ThrowIfInvalidIffInvalid ==
  \A t \in Callers :
    LET c == call[t]
    IN (/\ c.pc = "host"
        /\ c.binding = "Rcpp__integrator__throw_if_invalid"
        /\ c.res.exc # InvalidPtr)
         => (c.host.t = "stop" <=> ~SatisfiesInvariants(config_))

\* C26, one direction: it raises an R error for every configuration that
\* violates an invariant.
C26_RaisesIfInvalid ==
  \A t \in Callers :
    LET c == call[t]
    IN (/\ c.pc = "host"
        /\ c.binding = "Rcpp__integrator__throw_if_invalid"
        /\ c.res.exc # InvalidPtr
        /\ ~SatisfiesInvariants(config_))
         => c.host.t = "stop"

\* C26, the other direction: it returns normally for every valid
\* configuration.
C26_ReturnsIfValid ==
  \A t \in Callers :
    LET c == call[t]
    IN (/\ c.pc = "host"
        /\ c.binding = "Rcpp__integrator__throw_if_invalid"
        /\ c.res.exc # InvalidPtr
        /\ SatisfiesInvariants(config_))
         => c.host.t = "void"

\* C27: a captured failure does not end the kernel call.  Each batch the
\* kernel requests while the slot holds a failure is evaluated by invoking the user function (up to the point where it
\* throws, or at every point); such a callback never raises the captured
\* failure (only a std::bad_alloc of that batch leaves it).  The captured
\* failure is raised by the step in which the kernel entry returns, and no
\* activation that is still in the kernel has raised anything.
C27_CaptureDoesNotAbortKernel ==
  [][\A t \in Callers :
       LET c == call[t]
           d == call'[t]
       IN (c.pc = "kernel" /\ c.e_ptr # NullPtr)
            => /\ (d # c /\ ~d.kreturned)
                    => /\ d.xcalls >= 1
                       /\ d.xcalls = IF d.xthrow > 0 THEN d.xthrow
                                     ELSE Len(d.x)
                       /\ d.e_ptr # NullPtr
                       /\ \/ d.pc = "kernel" /\ d.res = NotEnded
                          \/ /\ d.pc = "done"
                             /\ d.thrown.kind = "std::bad_alloc"
                             /\ d.res = Raised(d.thrown)
               /\ d.kreturned
                    => /\ d.pc = "done"
                       /\ d.res = Raised(c.e_ptr)]_vars

\* after std::runtime_error("boom") was captured the kernel requested a
\* batch of two points, at both of which the user function was invoked and
\* returned 3; nothing has been raised yet
C27_Witness ==
  \E t \in Callers :
    LET c == call[t]
    IN /\ c.pc = "kernel"
       /\ c.e_ptr = Exception("std::runtime_error", "boom")
       /\ c.xthrow = 0
       /\ c.xcalls = 2
       /\ c.x = <<Fin(3), Fin(3)>>
       /\ c.res = NotEnded

\* what the handlers of guarded_transform store for a caught exception e
Captured(e) ==
  IF IsA(e.kind, "std::exception") THEN e
  ELSE Exception("integration_runtime_error", "Unknown error")

NonFiniteError ==
  Exception("integration_runtime_error", "non-finite function value")

\* C28: the slot holds one failure.  A batch in which the user function
\* raised an error that is captured leaves that error in the slot, whatever
\* the slot held; a batch without one leaves a filled slot as it is and
\* puts the non-finite error into an empty slot only, when a value of the
\* batch is not finite.  When the kernel entry returns, the call raises the
\* error the user function raised last in any batch, if it raised one, and
\* otherwise the non-finite error, if it returned a non-finite value.
C28_LastUserErrorWins ==
  [][\A t \in Callers :
       LET c == call[t]
           d == call'[t]
       IN c.pc = "kernel"
            => /\ (d.pc = "kernel" /\ d # c /\ d.xthrow > 0)
                    => d.e_ptr = Captured(d.thrown)
               /\ (d.pc = "kernel" /\ d # c /\ d.xthrow = 0)
                    => /\ c.e_ptr # NullPtr => d.e_ptr = c.e_ptr
                       /\ c.e_ptr = NullPtr
                            => d.e_ptr = IF d.nonfinite THEN NonFiniteError
                                         ELSE NullPtr
               /\ d.kreturned
                    => /\ d.thrown # NullPtr
                            => d.res = Raised(Captured(d.thrown))
                       /\ (d.thrown = NullPtr /\ d.nonfinite)
                            => d.res = Raised(NonFiniteError)]_vars

\* the user function raised an int in one batch and returned a non-finite
\* value in a later one: the slot still holds the "Unknown error"
C28_Witness ==
  \E t \in Callers :
    LET c == call[t]
    IN /\ c.pc = "kernel"
       /\ c.nonfinite
       /\ c.xthrow = 0
       /\ c.thrown = Exception("int", "")
       /\ c.e_ptr = Captured(c.thrown)
       /\ c.x = <<PosInf>>

\* C29: which kernel entry is invoked, and with which bounds arguments,
\* depends on the bounds only through their finiteness: the arguments are
\* those of the call with an infinite lower bound replaced by -inf and an
\* infinite upper bound by +inf.  So (+inf, b) is passed as (-inf, b) is
\* (inf = -1, bound = b), (a, -inf) as (a, +inf) is (inf = 1, bound = a),
\* and all four pairs of infinite bounds as inf = 2, bound = 0.
C29_DispatchByFinitenessOnly ==
  \A t \in Callers :
    LET c == call[t]
        lower == IF isfinite(c.lower) THEN c.lower ELSE NegInf
        upper == IF isfinite(c.upper) THEN c.upper ELSE PosInf
    IN c.kcalls > 0
         => /\ c.kernel = Dispatch(lower, upper)
            /\ (~isfinite(c.lower) /\ isfinite(c.upper))
                 => /\ c.kernel.entry = "Rdqagi"
                    /\ c.kernel.inf = -1
                    /\ c.kernel.bound = c.upper
            /\ (isfinite(c.lower) /\ ~isfinite(c.upper))
                 => /\ c.kernel.entry = "Rdqagi"
                    /\ c.kernel.inf = 1
                    /\ c.kernel.bound = c.lower
            /\ (~isfinite(c.lower) /\ ~isfinite(c.upper))
                 => /\ c.kernel.entry = "Rdqagi"
                    /\ c.kernel.inf = 2
                    /\ c.kernel.bound = Fin(0)

\* the call with bounds (0, -inf) entered Rdqagi with inf = 1, bound = 0
C29_Witness ==
  \E t \in Callers :
    /\ call[t].pc = "kernel"
    /\ call[t].lower = Fin(0)
    /\ call[t].upper = NegInf
    /\ call[t].kernel.entry = "Rdqagi"
    /\ call[t].kernel.inf = 1
    /\ call[t].kernel.bound = Fin(0)

\* the call with bounds (+inf, -inf) entered Rdqagi with inf = 2, bound = 0
C29_WitnessBoth ==
  \E t \in Callers :
    /\ call[t].pc = "kernel"
    /\ call[t].lower = PosInf
    /\ call[t].upper = NegInf
    /\ call[t].kernel.inf = 2
    /\ call[t].kernel.bound = Fin(0)

\* C30: every configuration with which the kernel is entered has
\* work_size >= 4 * max_subdivisions over the unbounded integers, the
\* product in the validation being computed in 32-bit ints: no limit above
\* INT_MAX / 4 reaches the kernel with a working array shorter than four
\* times the limit.
C30_AcceptedWorkSizeCoversLimit ==
  \A t \in Callers :
    LET c == call[t]
    IN c.kcalls > 0
         => /\ c.limit = c.config.max_subdivisions
            /\ c.lenw = c.config.work_size
            /\ c.config.max_subdivisions <= c.config.work_size \div 4
            /\ c.config.max_subdivisions > INT_MAX \div 4
                 => c.work \div 4 >= c.config.max_subdivisions

====
